---- MODULE Spec2Model ----
(***************************************************************************)
(* Canonical Sales Dashboard (Canonical.py).                               *)
(*                                                                         *)
(* The script is a Streamlit page: every widget interaction reruns the     *)
(* whole script top to bottom.  One rerun is one action of this model.    *)
(* A DataFrame is a sequence of records; the field "index" is the pandas   *)
(* index label of the row, the other fields are the CSV columns.           *)
(* Numbers are exact: a mean or a rate is the fraction [num, den], and     *)
(* 0/0 is NaN, which is how pandas computes the mean of no values.         *)
(***************************************************************************)
EXTENDS Integers, Sequences, FiniteSets, TLC

(***************************************************************************)
(* Bounds of the model.                                                    *)
(***************************************************************************)
\* Largest number of rows of a generated dataset of the small families.
MaxRows == 3
\* Rows beyond head(10) in the datasets built for the leaderboard.
BoardExtra == 3

(***************************************************************************)
(* Values of the CSV columns.                                              *)
(***************************************************************************)
\* A missing cell: read_csv yields NaN for it.  Present numbers are >= 0.
NaN == -1

Quarters == <<"Q1-FY25", "Q2-FY25">>
Regions == <<"EMEA", "US">>
Stages == <<"Closed-Lost", "Closed-Won", "Negotiation", "Proposal Sent">>
Categories == <<"Kubernetes", "Public Cloud", "Ubuntu OS">>
LeadSources == <<"Partner", "Web">>

\* The labels of each text column in lexicographic order: groupby sorts its
\* group keys, and strings compare lexicographically.
SortedLabels ==
    [Sales_Quarter |-> Quarters, Region |-> Regions, Deal_Stage |-> Stages,
     Product_Category |-> Categories, Lead_Source |-> LeadSources]

Range(s) == {s[i] : i \in DOMAIN s}

Min(a, b) == IF a <= b THEN a ELSE b

(***************************************************************************)
(* Exact arithmetic.                                                       *)
(***************************************************************************)
RECURSIVE GCD(_, _)
GCD(a, b) == IF b = 0 THEN a ELSE GCD(b, a % b)

\* The number n/d in lowest terms; 0/0 stays 0/0 (NaN).
Frac(n, d) ==
    LET g == GCD(n, d)
    IN  IF g = 0 THEN [num |-> 0, den |-> 0]
        ELSE [num |-> n \div g, den |-> d \div g]

\* pd.isna of a computed scalar.
IsNaN(x) == x.den = 0

\* f"{x:.<digits>f}" for x >= 0: the number of 10^-digits units nearest to x,
\* an exact tie going to the even neighbour (every tie that can arise from
\* fewer than 20 integer summands is exactly representable in binary).  NaN
\* is formatted as "nan".
Fixed(x, digits) ==
    IF IsNaN(x) THEN NaN
    ELSE LET scale == IF digits = 1 THEN 10 ELSE 100
             n == x.num * scale
             q == n \div x.den
             r == n % x.den
         IN  IF 2 * r > x.den \/ (2 * r = x.den /\ q % 2 = 1) THEN q + 1
             ELSE q

(***************************************************************************)
(* pandas primitives.                                                      *)
(***************************************************************************)
\* df[col]
Column(df, col) == [i \in DOMAIN df |-> df[i][col]]

\* series.unique(): the distinct values in order of first appearance.
RECURSIVE Unique(_)
Unique(series) ==
    IF Len(series) = 0 THEN <<>>
    ELSE LET front == Unique(SubSeq(series, 1, Len(series) - 1))
             last == series[Len(series)]
         IN  IF last \in Range(front) THEN front ELSE Append(front, last)

\* series.isin(values): a boolean mask.
IsIn(series, values) == [i \in DOMAIN series |-> series[i] \in values]

\* series == value
Eq(series, value) == [i \in DOMAIN series |-> series[i] = value]

\* mask1 & mask2 and ~mask
MaskAnd(m1, m2) == [i \in DOMAIN m1 |-> m1[i] /\ m2[i]]
MaskNot(m) == [i \in DOMAIN m |-> ~m[i]]

\* df[mask]: the rows whose mask is True, index labels kept, order kept.
RECURSIVE TakeMasked(_, _, _)
TakeMasked(df, mask, n) ==
    IF n = 0 THEN <<>>
    ELSE LET front == TakeMasked(df, mask, n - 1)
         IN  IF mask[n] THEN Append(front, df[n]) ELSE front

BoolIndex(df, mask) == TakeMasked(df, mask, Len(df))

\* series.sum(): NaN cells are skipped, the sum of nothing is 0.
RECURSIVE SumTo(_, _)
SumTo(series, n) ==
    IF n = 0 THEN 0
    ELSE SumTo(series, n - 1) + (IF series[n] = NaN THEN 0 ELSE series[n])

SeriesSum(series) == SumTo(series, Len(series))

\* Mutant: missing cells count as zeros, so every cell is counted.
SeriesCountAll(series) == Len(series)

\* The number of cells that are not NaN.
RECURSIVE CountTo(_, _)
CountTo(series, n) ==
    IF n = 0 THEN 0
    ELSE CountTo(series, n - 1) + (IF series[n] = NaN THEN 0 ELSE 1)

SeriesCount(series) == CountTo(series, Len(series))

\* series.mean(): sum of the present cells over their number, NaN if none.
SeriesMean(series) == Frac(SeriesSum(series), SeriesCount(series))


\* df.head(n)
HeadRows(df, n) == SubSeq(df, 1, Min(n, Len(df)))

\* The position of a value among ordered values: integers by magnitude,
\* labels lexicographically.
Ord(col, v) ==
    IF col = "Salesperson_ID" THEN v
    ELSE CHOOSE i \in DOMAIN SortedLabels[col] : SortedLabels[col][i] = v

\* The group key of a row: its values in the grouping columns.
KeyOf(row, cols) == [k \in DOMAIN cols |-> row[cols[k]]]

\* Tuple comparison of two group keys.
KeyLess(a, b, cols) ==
    \E k \in DOMAIN cols :
        /\ \A j \in 1..(k - 1) : a[j] = b[j]
        /\ Ord(cols[k], a[k]) < Ord(cols[k], b[k])

RECURSIVE SortedKeys(_, _)
SortedKeys(keys, cols) ==
    IF keys = {} THEN <<>>
    ELSE LET least == CHOOSE x \in keys :
                          \A y \in keys \ {x} : KeyLess(x, y, cols)
         IN  <<least>> \o SortedKeys(keys \ {least}, cols)

\* df.groupby(cols): the keys that occur, sorted (sort=True is the default).
\* dropna=True drops nothing: the grouping columns are mandatory labels, no
\* row of the datasets lacks one.
GroupKeys(df, cols) ==
    SortedKeys({KeyOf(df[i], cols) : i \in DOMAIN df}, cols)

\* The rows of one group, in the order of df.
GroupRows(df, cols, key) ==
    BoolIndex(df, [i \in DOMAIN df |-> KeyOf(df[i], cols) = key])

\* The position of column c in cols.
ColPos(cols, c) == CHOOSE k \in DOMAIN cols : cols[k] = c

\* Mutant: each group keeps its first value (.first() for .sum()).
GroupByFirst(df, cols, val) ==
    LET keys == GroupKeys(df, cols)
    IN  [g \in DOMAIN keys |->
            [c \in Range(cols) \cup {val, "index"} |->
                IF c = "index" THEN g - 1
                ELSE IF c = val THEN GroupRows(df, cols, keys[g])[1][val]
                     ELSE keys[g][ColPos(cols, c)]]]

\* df.groupby(cols)[val].sum().reset_index(): one row per group, the key
\* columns, the sum of val, and a fresh index 0, 1, ...
GroupBySum(df, cols, val) ==
    LET keys == GroupKeys(df, cols)
    IN  [g \in DOMAIN keys |->
            [c \in Range(cols) \cup {val, "index"} |->
                IF c = "index" THEN g - 1
                ELSE IF c = val
                     THEN SeriesSum(Column(GroupRows(df, cols, keys[g]), val))
                     ELSE keys[g][ColPos(cols, c)]]]

\* df.groupby(cols)[val].mean().reset_index()
GroupByMean(df, cols, val) ==
    LET keys == GroupKeys(df, cols)
    IN  [g \in DOMAIN keys |->
            [c \in Range(cols) \cup {val, "index"} |->
                IF c = "index" THEN g - 1
                ELSE IF c = val
                     THEN SeriesMean(Column(GroupRows(df, cols, keys[g]), val))
                     ELSE keys[g][ColPos(cols, c)]]]

\* Insertion of a row into rows sorted descending by column `by`, behind the
\* rows that are at least as large.
InsertDesc(sorted, row, by) ==
    LET k == Cardinality({i \in DOMAIN sorted : sorted[i][by] >= row[by]})
    IN  SubSeq(sorted, 1, k) \o <<row>> \o SubSeq(sorted, k + 1, Len(sorted))

RECURSIVE StableSortDesc(_, _)
StableSortDesc(df, by) ==
    IF Len(df) = 0 THEN <<>>
    ELSE InsertDesc(StableSortDesc(SubSeq(df, 1, Len(df) - 1), by),
                    df[Len(df)], by)

Reverse(s) == [i \in DOMAIN s |-> s[Len(s) + 1 - i]]

\* How the build's sort orders rows with equal sort values.  sort_values
\* uses kind='quicksort', which is not a stable sort: rows with equal values
\* come out in an order the numpy build decides.  It is a fixed function of
\* the input, so it is chosen once and never changes during a run.
TieOrders == {"kept", "reversed"}

\* df.sort_values(by=by, ascending=False)
SortValuesDesc(df, by, ties) ==
    IF ties = "kept" THEN StableSortDesc(df, by)
    ELSE StableSortDesc(Reverse(df), by)

\* series.idxmax() of column val: the index label of the first largest
\* value; on an empty series it raises ValueError.
IdxMax(df, val) ==
    IF Len(df) = 0 THEN [raised |-> TRUE, label |-> NaN]
    ELSE LET best == CHOOSE i \in DOMAIN df :
                         /\ \A j \in DOMAIN df : df[j][val] <= df[i][val]
                         /\ \A j \in 1..(i - 1) : df[j][val] < df[i][val]
         IN  [raised |-> FALSE, label |-> df[best]["index"]]

(***************************************************************************)
(* The computations of the script, in its order.                           *)
(***************************************************************************)
\* Mutant: the two masks joined with | instead of &.
ApplyFiltersOr(df, quarters, regions) ==
    BoolIndex(df, [i \in DOMAIN df |->
                      \/ df[i]["Sales_Quarter"] \in quarters
                      \/ df[i]["Region"] \in regions])

\* Mutant: the region mask negated.
ApplyFiltersNotRegion(df, quarters, regions) ==
    BoolIndex(df, MaskAnd(IsIn(Column(df, "Sales_Quarter"), quarters),
                          MaskNot(IsIn(Column(df, "Region"), regions))))

\* data[isin(selected_quarters) & isin(selected_regions)]
ApplyFilters(df, quarters, regions) ==
    BoolIndex(df, MaskAnd(IsIn(Column(df, "Sales_Quarter"), quarters),
                          IsIn(Column(df, "Region"), regions)))

ClosedWonRows(df) == BoolIndex(df, Eq(Column(df, "Deal_Stage"), "Closed-Won"))

ClosedLostRows(df) == BoolIndex(df, Eq(Column(df, "Deal_Stage"), "Closed-Lost"))

\* Mutant: the pipeline leaves out the won deals only.
PipelineRowsNotWon(df) ==
    BoolIndex(df, MaskNot(IsIn(Column(df, "Deal_Stage"), {"Closed-Won"})))

PipelineRows(df) ==
    BoolIndex(df, MaskNot(IsIn(Column(df, "Deal_Stage"),
                               {"Closed-Won", "Closed-Lost"})))

TotalPipelineValue(df) == SeriesSum(Column(PipelineRows(df), "Deal_Value_USD"))

TotalClosedWon(df) == SeriesSum(Column(ClosedWonRows(df), "Deal_Value_USD"))

TotalClosedLost(df) == SeriesSum(Column(ClosedLostRows(df), "Deal_Value_USD"))

\* Mutant: the rate over the closed deals only, with no guard.
WinRateOfClosed(df) ==
    Frac(Len(ClosedWonRows(df)) * 100,
         Len(ClosedWonRows(df)) + Len(ClosedLostRows(df)))

\* (closed_won / total_deals) * 100 if total_deals > 0 else 0
WinRate(df) ==
    LET closed_won == Len(ClosedWonRows(df))
        total_deals == Len(df)
    IN  IF total_deals > 0 THEN Frac(closed_won * 100, total_deals)
        ELSE Frac(0, 1)

AvgTimeToClose(df) == SeriesMean(Column(df, "Time_to_Close_Days"))

AvgCsat(df) == SeriesMean(Column(df, "Customer_Satisfaction_Score"))

AvgEngagement(df) == SeriesMean(Column(df, "Engagement_Score"))

\* f"${x:,.2f}": the amount in cents.
Money(x) == <<"$", Fixed(Frac(x, 1), 2)>>

\* f"{x:.2f}%": the rate in hundredths of a percent.
Percent(x) == <<"%", Fixed(x, 2)>>

\* Mutant: a missing mean is shown as zero.
MeanTextZero(x, digits) ==
    IF ~IsNaN(x) THEN <<"", Fixed(x, digits)>> ELSE <<"", 0>>

\* f"{x:.<digits>f}" if not pd.isna(x) else "N/A"
MeanText(x, digits) == IF ~IsNaN(x) THEN <<"", Fixed(x, digits)>> ELSE <<"N/A">>

\* The seven st.metric widgets, by label.
MetricWidgets(pipeline, won, lost, rate, time_to_close, csat, engagement) ==
    [Total_Value_in_Pipeline |-> Money(pipeline),
     Total_Closed_Won |-> Money(won),
     Win_Rate |-> Percent(rate),
     Total_Closed_Lost |-> Money(lost),
     Average_Time_to_Close |-> MeanText(time_to_close, 1),
     Average_CSAT_Score |-> MeanText(csat, 2),
     Average_Engagement_Score |-> MeanText(engagement, 2)]

\* Mutant: the deal-stage selection is not applied.
RegionFilteredDataAll(df, stages) == df

\* data_filtered[data_filtered['Deal_Stage'].isin(selected_deal_stages)]
RegionFilteredData(df, stages) ==
    BoolIndex(df, IsIn(Column(df, "Deal_Stage"), stages))

RegionCategoryRevenue(df) ==
    GroupBySum(df, <<"Region", "Product_Category">>, "Deal_Value_USD")

\* The leaderboard up to reset_index(): one row per (Salesperson_ID, Region)
\* of the Closed-Won rows, with the sum and the mean of Deal_Value_USD.
LeaderboardGroups(df) ==
    LET won == ClosedWonRows(df)
        cols == <<"Salesperson_ID", "Region">>
        keys == GroupKeys(won, cols)
    IN  [g \in DOMAIN keys |->
            LET values == Column(GroupRows(won, cols, keys[g]), "Deal_Value_USD")
            IN  [index |-> g - 1,
                 Salesperson_ID |-> keys[g][1],
                 Region |-> keys[g][2],
                 Total_Closed_Won |-> SeriesSum(values),
                 Average_Deal_Value |-> SeriesMean(values)]]

\* The number of rows head() keeps.
TopN == 10

\* Mutant: head(10) is taken before the sort.
LeaderboardCutFirst(df, ties) ==
    SortValuesDesc(HeadRows(LeaderboardGroups(df), TopN), "Total_Closed_Won",
                   ties)

\* .sort_values(by='Total_Closed_Won', ascending=False).head(10)
Leaderboard(df, ties) ==
    HeadRows(SortValuesDesc(LeaderboardGroups(df), "Total_Closed_Won", ties), TopN)

CategoryRevenue(df) ==
    GroupBySum(ClosedWonRows(df), <<"Product_Category">>, "Deal_Value_USD")

\* [0.1 if i == category_revenue['Deal_Value_USD'].idxmax() else 0
\*  for i in range(len(category_revenue))], in tenths.  idxmax() is evaluated
\* once per element, so never for an empty table; what it raises is kept in
\* the field raised.
PiePull(revenue) ==
    [pull |-> [i \in DOMAIN revenue |->
                  IF i - 1 = IdxMax(revenue, "Deal_Value_USD").label
                  THEN 1 ELSE 0],
     raised |-> IF \E i \in DOMAIN revenue :
                       IdxMax(revenue, "Deal_Value_USD").raised
                THEN "ValueError" ELSE "none"]

CategoryAvgDeal(df) == GroupByMean(df, <<"Product_Category">>, "Deal_Value_USD")

LeadSourceData(df) ==
    GroupBySum(df, <<"Lead_Source", "Deal_Stage">>, "Deal_Value_USD")


(***************************************************************************)
(* State.                                                                  *)
(***************************************************************************)
VARIABLES
    csv,                    \* the table in canonical_sales_data_final_corrected.csv
    cache,                  \* what st.cache_data holds for load_data()
    tie_order,              \* the build's order of equal sort values
    data,
    sales_quarters, selected_quarters,
    regions, selected_regions,
    data_filtered,
    total_pipeline_value, total_closed_won, total_closed_lost, win_rate,
    avg_time_to_close, avg_csat, avg_engagement,
    metric_widgets,         \* the values shown by the st.metric widgets
    deal_stages, selected_deal_stages,
    region_filtered_data, region_category_revenue,
    leaderboard,
    category_revenue, pull, raised,
    category_avg_deal,
    lead_source_data

selections == <<selected_quarters, selected_regions, selected_deal_stages>>

metrics ==
    <<total_pipeline_value, total_closed_won, total_closed_lost, win_rate,
      avg_time_to_close, avg_csat, avg_engagement, metric_widgets>>

vars ==
    <<csv, cache, tie_order, data, sales_quarters, regions, deal_stages,
      selections, data_filtered, metrics, region_filtered_data,
      region_category_revenue, leaderboard, category_revenue, pull, raised,
      category_avg_deal, lead_source_data>>

\* pd.read_csv: the rows of the file under a RangeIndex 0, 1, ...
ReadCsv(rows) == [i \in DOMAIN rows |-> rows[i] @@ [index |-> i - 1]]

\* Mutant: the cache hands out one shared table and the filter narrows it in
\* place, so the next run loads what the last run left.
load_data_shared(cached) == data_filtered

\* load_data() under @st.cache_data once the value is cached: the cached
\* table, handed out as a copy.
load_data(cached) == cached


\* One run of the script: everything it computes from the loaded table, the
\* widget selections and the build's tie order.
Page(table, quarters, rgns, stages, ties) ==
    LET filtered == ApplyFilters(table, quarters, rgns)
        pipeline == TotalPipelineValue(filtered)
        won == TotalClosedWon(filtered)
        lost == TotalClosedLost(filtered)
        rate == WinRate(filtered)
        time_to_close == AvgTimeToClose(filtered)
        csat == AvgCsat(filtered)
        engagement == AvgEngagement(filtered)
        stage_filtered == RegionFilteredData(filtered, stages)
        revenue == CategoryRevenue(filtered)
        fig_pie == PiePull(revenue)
    IN  [data |-> table,
         sales_quarters |-> Unique(Column(table, "Sales_Quarter")),
         regions |-> Unique(Column(table, "Region")),
         data_filtered |-> filtered,
         total_pipeline_value |-> pipeline,
         total_closed_won |-> won,
         total_closed_lost |-> lost,
         win_rate |-> rate,
         avg_time_to_close |-> time_to_close,
         avg_csat |-> csat,
         avg_engagement |-> engagement,
         metric_widgets |-> MetricWidgets(pipeline, won, lost, rate,
                                          time_to_close, csat, engagement),
         deal_stages |-> Unique(Column(table, "Deal_Stage")),
         region_filtered_data |-> stage_filtered,
         region_category_revenue |-> RegionCategoryRevenue(stage_filtered),
         leaderboard |-> Leaderboard(filtered, ties),
         category_revenue |-> revenue,
         pull |-> fig_pie.pull,
         raised |-> fig_pie.raised,
         category_avg_deal |-> CategoryAvgDeal(filtered),
         lead_source_data |-> LeadSourceData(filtered)]

(***************************************************************************)
(* Datasets.  Each family varies the columns one group of computations     *)
(* reads and keeps the other columns at the values of BaseRow.             *)
(***************************************************************************)
BaseRow ==
    [Sales_Quarter |-> "Q1-FY25", Region |-> "EMEA",
     Deal_Stage |-> "Closed-Won", Deal_Value_USD |-> 100,
     Product_Category |-> "Ubuntu OS", Lead_Source |-> "Web",
     Salesperson_ID |-> 1, Time_to_Close_Days |-> 30,
     Customer_Satisfaction_Score |-> 4, Engagement_Score |-> 7]

\* Every quarter in every region.
FilterPool ==
    {[Sales_Quarter |-> q, Region |-> r,
      Deal_Value_USD |-> IF r = "EMEA" THEN 100 ELSE 50] @@ BaseRow :
        q \in Range(Quarters), r \in Range(Regions)}

\* Won, lost and open deals in one region, and a won deal in the other.
StagePool ==
    {[Deal_Stage |-> s,
      Deal_Value_USD |-> CASE s = "Closed-Won" -> 100
                           [] s = "Closed-Lost" -> 30
                           [] OTHER -> 50] @@ BaseRow :
        s \in {"Closed-Won", "Closed-Lost", "Negotiation"}}
    \cup {[Region |-> "US", Deal_Value_USD |-> 70] @@ BaseRow}

\* The optional columns: all missing, all present, some present.
MeansPool ==
    {[Deal_Stage |-> "Negotiation", Time_to_Close_Days |-> NaN,
      Customer_Satisfaction_Score |-> NaN, Engagement_Score |-> NaN] @@ BaseRow,
     [Time_to_Close_Days |-> 45, Customer_Satisfaction_Score |-> NaN,
      Engagement_Score |-> 8] @@ BaseRow,
     BaseRow,
     [Region |-> "US", Time_to_Close_Days |-> 15,
      Customer_Satisfaction_Score |-> 5, Engagement_Score |-> NaN] @@ BaseRow}

\* The grouping columns: three sellers' profiles with a won deal, two of
\* them also with an open one.
GroupPool ==
    {BaseRow,
     [Product_Category |-> "Kubernetes", Lead_Source |-> "Partner",
      Salesperson_ID |-> 2, Deal_Value_USD |-> 60] @@ BaseRow,
     [Region |-> "US", Lead_Source |-> "Partner",
      Deal_Value_USD |-> 80] @@ BaseRow,
     [Deal_Stage |-> "Proposal Sent", Deal_Value_USD |-> 40] @@ BaseRow,
     [Deal_Stage |-> "Proposal Sent", Product_Category |-> "Kubernetes",
      Lead_Source |-> "Partner", Salesperson_ID |-> 2,
      Deal_Value_USD |-> 20] @@ BaseRow}

\* The tables of up to MaxRows rows drawn from a pool.
Tables(pool) ==
    {ReadCsv(rows) : rows \in UNION {[1..n -> pool] : n \in 0..MaxRows}}

\* Tables with more sellers than the leaderboard shows.  Row i is a deal of
\* seller i, the rows beyond seller TopN + 1 start again at seller 1; regions
\* alternate, and the rows that start again are all in region `far`.  The
\* deal values follow a pattern, and row `open` (if any) is not Closed-Won.
BoardRows == TopN + BoardExtra

ValuePatterns == {"rising", "falling", "level", "step"}

BoardValue(pattern, i) ==
    CASE pattern = "rising" -> 10 * i
      [] pattern = "falling" -> 10 * (BoardRows + 1 - i)
      [] pattern = "level" -> 10
      [] OTHER -> IF i < TopN THEN 20 ELSE 10

BoardTable(pattern, far, open) ==
    ReadCsv([i \in 1..BoardRows |->
        [Salesperson_ID |-> IF i <= TopN + 1 THEN i ELSE i - (TopN + 1),
         Region |-> IF i > TopN + 1 THEN far
                    ELSE IF i % 2 = 1 THEN "EMEA" ELSE "US",
         Deal_Stage |-> IF i = open THEN "Negotiation" ELSE "Closed-Won",
         Deal_Value_USD |-> BoardValue(pattern, i)] @@ BaseRow])

BoardTables ==
    {BoardTable(pattern, far, open) :
        pattern \in ValuePatterns, far \in Range(Regions),
        open \in 0..BoardRows}

\* The state after the first run of the script in a fresh process: the file
\* is read once into the cache and every multiselect shows its default, all
\* the values of its column.
Start(table, ties) ==
    \E page \in {Page(table, Range(Unique(Column(table, "Sales_Quarter"))),
                       Range(Unique(Column(table, "Region"))),
                       Range(Unique(Column(table, "Deal_Stage"))), ties)} :
        /\ csv = table
        /\ cache = table
        /\ tie_order = ties
        /\ data = page.data
        /\ sales_quarters = page.sales_quarters
        /\ selected_quarters = Range(page.sales_quarters)
        /\ regions = page.regions
        /\ selected_regions = Range(page.regions)
        /\ data_filtered = page.data_filtered
        /\ total_pipeline_value = page.total_pipeline_value
        /\ total_closed_won = page.total_closed_won
        /\ total_closed_lost = page.total_closed_lost
        /\ win_rate = page.win_rate
        /\ avg_time_to_close = page.avg_time_to_close
        /\ avg_csat = page.avg_csat
        /\ avg_engagement = page.avg_engagement
        /\ metric_widgets = page.metric_widgets
        /\ deal_stages = page.deal_stages
        /\ selected_deal_stages = Range(page.deal_stages)
        /\ region_filtered_data = page.region_filtered_data
        /\ region_category_revenue = page.region_category_revenue
        /\ leaderboard = page.leaderboard
        /\ category_revenue = page.category_revenue
        /\ pull = page.pull
        /\ raised = page.raised
        /\ category_avg_deal = page.category_avg_deal
        /\ lead_source_data = page.lead_source_data

Init == \E table \in Tables(FilterPool), ties \in TieOrders : Start(table, ties)

(***************************************************************************)
(* Actions: a widget interaction sets the widget's value and reruns the    *)
(* script from the top.                                                    *)
(***************************************************************************)
Rerun(quarters, rgns, stages) ==
    \E page \in {Page(load_data(cache), quarters, rgns, stages, tie_order)} :
        /\ UNCHANGED <<csv, cache, tie_order>>
        /\ data' = page.data
        /\ sales_quarters' = page.sales_quarters
        /\ selected_quarters' = quarters
        /\ regions' = page.regions
        /\ selected_regions' = rgns
        /\ data_filtered' = page.data_filtered
        /\ total_pipeline_value' = page.total_pipeline_value
        /\ total_closed_won' = page.total_closed_won
        /\ total_closed_lost' = page.total_closed_lost
        /\ win_rate' = page.win_rate
        /\ avg_time_to_close' = page.avg_time_to_close
        /\ avg_csat' = page.avg_csat
        /\ avg_engagement' = page.avg_engagement
        /\ metric_widgets' = page.metric_widgets
        /\ deal_stages' = page.deal_stages
        /\ selected_deal_stages' = stages
        /\ region_filtered_data' = page.region_filtered_data
        /\ region_category_revenue' = page.region_category_revenue
        /\ leaderboard' = page.leaderboard
        /\ category_revenue' = page.category_revenue
        /\ pull' = page.pull
        /\ raised' = page.raised
        /\ category_avg_deal' = page.category_avg_deal
        /\ lead_source_data' = page.lead_source_data

\* Adding a value to a selection, or removing it.
Toggle(selected, value) ==
    IF value \in selected THEN selected \ {value} ELSE selected \cup {value}

\* The user clicks an option of "Select Quarter(s):".
SelectQuarter ==
    \E q \in Range(sales_quarters) :
        Rerun(Toggle(selected_quarters, q), selected_regions,
              selected_deal_stages)

\* The user clicks an option of "Select Region(s):".
SelectRegion ==
    \E r \in Range(regions) :
        Rerun(selected_quarters, Toggle(selected_regions, r),
              selected_deal_stages)

\* The user clicks an option of "Select Deal Stage(s):".
SelectDealStage ==
    \E s \in Range(deal_stages) :
        Rerun(selected_quarters, selected_regions,
              Toggle(selected_deal_stages, s))

\* The page is opened again in the same process: a new session, whose
\* widgets show their defaults.
NewSession ==
    Rerun(Range(sales_quarters), Range(regions), Range(deal_stages))

Next == SelectQuarter \/ SelectRegion \/ SelectDealStage \/ NewSession

Spec == Init /\ [][Next]_vars

\* The same program on the other families of datasets.
InitStages ==
    \E table \in Tables(StagePool), ties \in TieOrders : Start(table, ties)

SpecStages == InitStages /\ [][Next]_vars

InitMeans ==
    \E table \in Tables(MeansPool), ties \in TieOrders : Start(table, ties)

SpecMeans == InitMeans /\ [][Next]_vars

InitGroups ==
    \E table \in Tables(GroupPool), ties \in TieOrders : Start(table, ties)

SpecGroups == InitGroups /\ [][Next]_vars

InitBoard == \E table \in BoardTables, ties \in TieOrders : Start(table, ties)

SpecBoard == InitBoard /\ [][Next]_vars


(***************************************************************************)
(* Properties.                                                             *)
(***************************************************************************)
\* Labels a selection can hold: those of the datasets and one that occurs in
\* no row.
QuarterLabels == Range(Quarters) \cup {"Q4-FY24"}
RegionLabels == Range(Regions) \cup {"APAC"}

\* view holds exactly the rows of df with quarter in Q and region in R, each
\* once, in the order of df.
IsViewOf(view, df, Q, R) ==
    /\ \A k \in DOMAIN view : \E i \in DOMAIN df : view[k] = df[i]
    /\ {view[k]["index"] : k \in DOMAIN view}
         = {df[i]["index"] : i \in {j \in DOMAIN df :
                /\ df[j]["Sales_Quarter"] \in Q
                /\ df[j]["Region"] \in R}}
    /\ \A k \in 1..(Len(view) - 1) : view[k]["index"] < view[k + 1]["index"]
    /\ (Q = {} \/ R = {}) => view = <<>>

\* C1: the filtered view holds exactly the rows of the dataset whose quarter
\* is selected and whose region is selected, in the dataset's order; a
\* selected value that no row has matches nothing, and an empty selection
\* gives an empty view.
C1_FilterExact ==
    /\ IsViewOf(data_filtered, data, selected_quarters, selected_regions)
    /\ \A Q \in SUBSET QuarterLabels, R \in SUBSET RegionLabels :
           IsViewOf(ApplyFilters(data, Q, R), data, Q, R)

\* A three-row dataset whose middle row alone is filtered out.
C1_Witness ==
    /\ Len(data) = 3
    /\ Len(data_filtered) = 2
    /\ data_filtered[1]["index"] = 0
    /\ data_filtered[2]["index"] = 2
    /\ selected_regions # {}
    /\ selected_quarters # Range(sales_quarters)

\* C6: filtering the filtered view again with any supersets of the selected
\* quarters and regions, the selections themselves included, returns the
\* same view.
C6_FilterIdempotent ==
    \A Q \in SUBSET QuarterLabels, R \in SUBSET RegionLabels :
        (selected_quarters \subseteq Q /\ selected_regions \subseteq R)
            => ApplyFilters(data_filtered, Q, R) = data_filtered

\* A view that kept some rows and dropped others, under selections that
\* have proper supersets among the options.
C6_Witness ==
    /\ data_filtered # <<>>
    /\ Len(data_filtered) < Len(data)
    /\ selected_quarters # Range(sales_quarters)
    /\ selected_regions # Range(regions)

\* C10: the loaded dataset is never changed, and what a run shows is what
\* the script computes from the dataset and the current selections alone,
\* whatever was selected before.
C10_DatasetImmutable ==
    LET page == Page(csv, selected_quarters, selected_regions,
                     selected_deal_stages, tie_order)
    IN  /\ data = csv
        /\ cache = csv
        /\ data_filtered = page.data_filtered
        /\ metrics = <<page.total_pipeline_value, page.total_closed_won,
                       page.total_closed_lost, page.win_rate,
                       page.avg_time_to_close, page.avg_csat,
                       page.avg_engagement, page.metric_widgets>>
        /\ region_filtered_data = page.region_filtered_data
        /\ region_category_revenue = page.region_category_revenue
        /\ leaderboard = page.leaderboard
        /\ category_revenue = page.category_revenue
        /\ pull = page.pull
        /\ raised = page.raised
        /\ category_avg_deal = page.category_avg_deal
        /\ lead_source_data = page.lead_source_data

\* A run under a narrowed selection: rows are filtered out of the view and
\* the dataset is whole.
C10_Witness ==
    /\ selected_quarters # Range(sales_quarters)
    /\ data_filtered # <<>>
    /\ Len(data_filtered) < Len(csv)
    /\ data = csv


\* The sum of Deal_Value_USD over the rows of df at the positions in I.
RECURSIVE ValueOver(_, _)
ValueOver(df, I) ==
    IF I = {} THEN 0
    ELSE LET i == CHOOSE j \in I : TRUE
         IN  df[i]["Deal_Value_USD"] + ValueOver(df, I \ {i})

\* The positions of the rows of df whose column col has a value in values.
Where(df, col, values) == {i \in DOMAIN df : df[i][col] \in values}

\* C2: pipeline + won + lost never exceeds the value of the whole view and
\* equals it exactly when every deal is in a bucket; pipeline is the deals
\* neither won nor lost, and no deal is in two buckets.
C2_BucketsPartition ==
    LET won == Where(data_filtered, "Deal_Stage", {"Closed-Won"})
        lost == Where(data_filtered, "Deal_Stage", {"Closed-Lost"})
        open == {i \in DOMAIN data_filtered :
                    data_filtered[i]["Deal_Stage"]
                        \notin {"Closed-Won", "Closed-Lost"}}
        buckets == total_pipeline_value + total_closed_won + total_closed_lost
        whole == ValueOver(data_filtered, DOMAIN data_filtered)
    IN  /\ total_pipeline_value = ValueOver(data_filtered, open)
        /\ total_closed_won = ValueOver(data_filtered, won)
        /\ total_closed_lost = ValueOver(data_filtered, lost)
        /\ won \cap lost = {} /\ won \cap open = {} /\ lost \cap open = {}
        /\ buckets <= whole
        /\ (buckets = whole)
             <=> (\A i \in DOMAIN data_filtered : i \in (won \cup lost) \cup open)

\* After a rerun, a view with a deal in each bucket.
C2_Witness ==
    /\ selected_deal_stages # Range(deal_stages)
    /\ total_pipeline_value > 0
    /\ total_closed_won > 0
    /\ total_closed_lost > 0

\* C3: win_rate is 100 times the Closed-Won rows over all the rows of the
\* view, open deals included; it lies in [0, 100]; it is 0 for an empty view.
C3_WinRate ==
    LET total == Len(data_filtered)
        won == Cardinality(Where(data_filtered, "Deal_Stage", {"Closed-Won"}))
    IN  /\ win_rate.den > 0
        /\ total > 0 => win_rate.num * total = 100 * won * win_rate.den
        /\ 0 <= win_rate.num
        /\ win_rate.num <= 100 * win_rate.den
        /\ total = 0 => win_rate.num = 0

\* A region is filtered out and the view keeps one won and one open deal:
\* 50%.
C3_Witness ==
    /\ Len(data_filtered) = 2
    /\ Len(data) = 3
    /\ win_rate = [num |-> 50, den |-> 1]
    /\ total_pipeline_value > 0
    /\ metric_widgets.Win_Rate = <<"%", 5000>>

\* What the deal-stage selection does not reach.
StageBlind ==
    <<data_filtered, metrics, leaderboard, category_revenue, pull,
      category_avg_deal, lead_source_data>>

\* The Region x Product_Category roll-up has one row for each pair that a
\* filtered row of a selected stage has, with the value of those rows.
StageRollupExact ==
    LET chosen == Where(data_filtered, "Deal_Stage", selected_deal_stages)
        Pair(row) == <<row["Region"], row["Product_Category"]>>
    IN  /\ {Pair(region_category_revenue[g]) :
                g \in DOMAIN region_category_revenue}
             = {Pair(data_filtered[i]) : i \in chosen}
        /\ \A g \in DOMAIN region_category_revenue :
               region_category_revenue[g]["Deal_Value_USD"]
                 = ValueOver(data_filtered,
                             {i \in chosen : Pair(data_filtered[i])
                                 = Pair(region_category_revenue[g])})
        /\ \A g, h \in DOMAIN region_category_revenue :
               Pair(region_category_revenue[g]) = Pair(region_category_revenue[h])
                   => g = h

\* C9: a run that changes neither the quarters nor the regions selected
\* leaves the filtered table, the key metrics, the leaderboard, both
\* category roll-ups and the lead-source roll-up as they were, and the
\* Region x Product_Category roll-up always comes from exactly the filtered
\* rows whose stage is selected.
C9_StageSelectionFrame ==
    [][/\ (/\ selected_quarters' = selected_quarters
           /\ selected_regions' = selected_regions)
              => StageBlind' = StageBlind
       /\ StageRollupExact']_vars

\* The open stage is deselected: its deals are gone from the stage-filtered
\* rows and still counted in the pipeline.
C9_Witness ==
    /\ "Negotiation" \in Range(deal_stages) \ selected_deal_stages
    /\ Len(region_filtered_data) < Len(data_filtered)
    /\ region_category_revenue # <<>>
    /\ total_pipeline_value > 0


\* C4: with no quarter or no region selected nothing is raised, the three
\* sums are 0 and shown as $0.00, and the three averages are missing and
\* shown as N/A, never as 0.
C4_EmptySelection ==
    (selected_quarters = {} \/ selected_regions = {}) =>
        /\ raised = "none"
        /\ data_filtered = <<>>
        /\ total_pipeline_value = 0
        /\ total_closed_won = 0
        /\ total_closed_lost = 0
        /\ metric_widgets.Total_Value_in_Pipeline = <<"$", 0>>
        /\ metric_widgets.Total_Closed_Won = <<"$", 0>>
        /\ metric_widgets.Total_Closed_Lost = <<"$", 0>>
        /\ IsNaN(avg_time_to_close) /\ IsNaN(avg_csat) /\ IsNaN(avg_engagement)
        /\ metric_widgets.Average_Time_to_Close = <<"N/A">>
        /\ metric_widgets.Average_CSAT_Score = <<"N/A">>
        /\ metric_widgets.Average_Engagement_Score = <<"N/A">>

\* Every region is deselected in a dataset whose rows have all three
\* optional values.
C4_Witness ==
    /\ selected_regions = {}
    /\ selected_quarters # {}
    /\ \E i \in DOMAIN data :
           /\ data[i]["Time_to_Close_Days"] # NaN
           /\ data[i]["Customer_Satisfaction_Score"] # NaN
           /\ data[i]["Engagement_Score"] # NaN

\* The sum of column col over the rows of df at the positions in I.
RECURSIVE CellsOver(_, _, _)
CellsOver(df, col, I) ==
    IF I = {} THEN 0
    ELSE LET i == CHOOSE j \in I : TRUE
         IN  df[i][col] + CellsOver(df, col, I \ {i})

\* avg is the mean of the present cells of column col of the view, and text,
\* its widget, shows N/A exactly when no cell is present and otherwise the
\* mean to the nearest unit of 1/scale.
IsMeanOf(avg, text, col, scale) ==
    LET present == {i \in DOMAIN data_filtered : data_filtered[i][col] # NaN}
    IN  /\ (text = <<"N/A">>) <=> (present = {})
        /\ present = {} => IsNaN(avg)
        /\ present # {} =>
               /\ avg.den > 0
               /\ avg.num * Cardinality(present)
                    = CellsOver(data_filtered, col, present) * avg.den
               /\ Len(text) = 2
               /\ 2 * (text[2] * avg.den - avg.num * scale) <= avg.den
               /\ 2 * (avg.num * scale - text[2] * avg.den) <= avg.den

\* C5: each reported average is the sum of the present values over the
\* number of rows that have one; rows without a value count in neither, and
\* N/A is shown exactly when no row of the view has a value.
C5_MeansSkipMissing ==
    /\ IsMeanOf(avg_time_to_close, metric_widgets.Average_Time_to_Close,
                "Time_to_Close_Days", 10)
    /\ IsMeanOf(avg_csat, metric_widgets.Average_CSAT_Score,
                "Customer_Satisfaction_Score", 100)
    /\ IsMeanOf(avg_engagement, metric_widgets.Average_Engagement_Score,
                "Engagement_Score", 100)

\* After a region is filtered out, a view of two rows of which one has no
\* satisfaction score: the average is the other row's score, not half of it.
C5_Witness ==
    /\ Len(data_filtered) = 2
    /\ Len(data) = 3
    /\ \E i, j \in DOMAIN data_filtered :
           /\ data_filtered[i]["Customer_Satisfaction_Score"] = NaN
           /\ data_filtered[j]["Customer_Satisfaction_Score"] = 4
    /\ avg_csat = [num |-> 4, den |-> 1]
    /\ metric_widgets.Average_CSAT_Score = <<"", 400>>


\* The Closed-Won rows of the filtered view.
WonView == SelectSeq(data_filtered, LAMBDA row : row["Deal_Stage"] = "Closed-Won")

\* The group totals of rollup add up to the value of the rows of population,
\* and every row of population has its key columns cols in exactly one group.
IsRollupOf(rollup, total, population, cols) ==
    /\ CellsOver(rollup, total, DOMAIN rollup)
         = ValueOver(population, DOMAIN population)
    /\ \A i \in DOMAIN population :
           Cardinality({g \in DOMAIN rollup :
               \A k \in DOMAIN cols :
                   rollup[g][cols[k]] = population[i][cols[k]]}) = 1

\* C7: in each roll-up the group totals add up to the ungrouped sum over the
\* same rows, and each of those rows is in exactly one group: Region x
\* Product_Category over the stage-filtered rows, Lead_Source x Deal_Stage
\* over the filtered rows, Product_Category over the Closed-Won rows, and
\* (Salesperson_ID, Region) over the Closed-Won rows before the cut.
C7_GroupedSums ==
    /\ IsRollupOf(region_category_revenue, "Deal_Value_USD",
                  region_filtered_data, <<"Region", "Product_Category">>)
    /\ IsRollupOf(lead_source_data, "Deal_Value_USD", data_filtered,
                  <<"Lead_Source", "Deal_Stage">>)
    /\ IsRollupOf(category_revenue, "Deal_Value_USD", WonView,
                  <<"Product_Category">>)
    /\ IsRollupOf(LeaderboardGroups(data_filtered), "Total_Closed_Won", WonView,
                  <<"Salesperson_ID", "Region">>)

\* With a stage deselected, roll-ups of two groups over three rows, so that
\* a group holds two rows.
C7_Witness ==
    /\ Len(data_filtered) = 3
    /\ Len(lead_source_data) = 2
    /\ Len(region_filtered_data) = 2
    /\ Len(region_category_revenue) = 1
    /\ Len(WonView) = 2
    /\ Len(category_revenue) = 1

\* The (Salesperson_ID, Region) pairs of the Closed-Won rows of the view.
WonGroups == {<<WonView[i]["Salesperson_ID"], WonView[i]["Region"]>> :
                 i \in DOMAIN WonView}

\* The Closed-Won value of one pair.
WonTotal(pair) ==
    ValueOver(WonView, {i \in DOMAIN WonView :
        <<WonView[i]["Salesperson_ID"], WonView[i]["Region"]>> = pair})

\* The pair a leaderboard row is about.
BoardPair(j) == <<leaderboard[j]["Salesperson_ID"], leaderboard[j]["Region"]>>

\* C8: the leaderboard has one row for each of the best TopN (Salesperson_ID,
\* Region) groups of the Closed-Won rows, or for all of them if fewer, each
\* with the group's Closed-Won sum, in non-increasing order of that sum; no
\* group left out has a larger sum than a group shown.
C8_LeaderboardTopTen ==
    /\ Len(leaderboard) <= TopN
    /\ Len(leaderboard) = Min(TopN, Cardinality(WonGroups))
    /\ \A j \in DOMAIN leaderboard :
           /\ BoardPair(j) \in WonGroups
           /\ leaderboard[j]["Total_Closed_Won"] = WonTotal(BoardPair(j))
    /\ \A j, k \in DOMAIN leaderboard : BoardPair(j) = BoardPair(k) => j = k
    /\ \A j \in 1..(Len(leaderboard) - 1) :
           leaderboard[j]["Total_Closed_Won"]
               >= leaderboard[j + 1]["Total_Closed_Won"]
    /\ \A pair \in WonGroups \ {BoardPair(j) : j \in DOMAIN leaderboard} :
           \A j \in DOMAIN leaderboard :
               WonTotal(pair) <= leaderboard[j]["Total_Closed_Won"]

\* After the open stage is deselected: more than TopN groups, one of them of
\* two rows, and one deal not won; the leaderboard is cut, and the group cut
\* off is not the last in key order.
C8_Witness ==
    /\ selected_deal_stages = {"Closed-Won"}
    /\ Cardinality(WonGroups) > TopN
    /\ Len(leaderboard) = TopN
    /\ Len(WonView) < Len(data_filtered)
    /\ Len(WonView) > Cardinality(WonGroups)
    /\ leaderboard[1]["Total_Closed_Won"] > leaderboard[TopN]["Total_Closed_Won"]
    /\ \E j \in DOMAIN leaderboard :
           leaderboard[j]["Salesperson_ID"] = TopN + 1

====
